---- MODULE Spec2Model ----
(***************************************************************************)
(* The status service of node-devops-fargate (src/server/server.js): an   *)
(* Express application with the JSON body middleware and four routes.     *)
(* One process is modelled from module load to exit, with the requests    *)
(* it accepts, the ones whose body is still being read, and the responses *)
(* it has sent.  Node runs each callback to completion, so one action is  *)
(* one callback: the arrival of a request (middleware, routing and        *)
(* handler run in the same turn unless a body has to be read) and the end *)
(* of a body read.                                                        *)
(***************************************************************************)
EXTENDS Integers, Sequences, FiniteSets, TLC

VARIABLES
    proc,        \* "starting" | "listening" | "exited"
    exitCode,    \* exit status once proc = "exited", else -1
    env,         \* process.env restricted to PORT and NODE_ENV (a name is set iff in DOMAIN)
    PORT,        \* the module constant PORT
    express,     \* major version of the express dependency the image was built with
    mono,        \* monotonic clock (the source of process.uptime())
    startMono,   \* monotonic clock at process start
    wall,        \* system wall clock in ms (the source of new Date())
    wallSets,    \* history: how often the wall clock has been set back
    nreq,        \* requests accepted so far
    thrown,      \* history: how many times a route handler has thrown
    alone,       \* history: what this process answers each request sent to it alone
    inflight,    \* requests whose body the JSON middleware is reading
    log,         \* history: the responses sent, in the order they were sent
    stdout,      \* what the process has written with console.log
    stderr,      \* what the runtime has written to standard error
    bound,       \* the port the listening socket is bound to, -1 while there is none
    signal,      \* "none", or the termination signal the process has been sent
    ci,          \* CI pipeline: the result of the CI run of each commit
    run,         \* CD pipeline: the state of each run of the workflow
    ecr,         \* the ECR repository: the image each tag refers to
    smoke,       \* history: the images that have answered a /health poll with 200
    client,      \* the test client (src/client/client.js): position, requests, output, exit
    health,      \* the container's health as the runtime keeps it from the HEALTHCHECK probes
    setup        \* a run of scripts/setup-aws.sh: position, commands run, output, exit

vars == <<proc, exitCode, env, PORT, express, mono, startMono, wall, wallSets,
          nreq, thrown, alone, inflight, log, stdout, stderr, bound, signal,
          ci, run, ecr, smoke, client, health, setup>>

\* What the process writes and holds outside its own memory.
host == <<stdout, stderr, bound, signal>>

\* The state of the build and deployment pipelines.
pipeline == <<ci, run, ecr, smoke>>

\* The programs around the server: test client, health probe, setup script.
tools == <<client, health, setup>>

shared == <<proc, exitCode, env, PORT, express, startMono>>

----------------------------------------------------------------------------
(* Bounds of the model *)

MaxReq == 2
MaxTicks == 1
MaxWallSets == 1
WallStart == 999
MaxRuns == 2
MaxProbes == 4
MaxSetupRuns == 2

----------------------------------------------------------------------------
(* JSON values.  A document is the value a JSON text denotes, numbers kept *)
(* as their literal; a JS value has the same shape with numbers as IEEE    *)
(* doubles.                                                                *)

JNull == [t |-> "null"]
JBool(b) == [t |-> "bool", bool |-> b]
JNum(lit) == [t |-> "num", num |-> lit]
JStr(s) == [t |-> "str", str |-> s]
JArr(items) == [t |-> "arr", items |-> items]
JObj(members) == [t |-> "obj", members |-> members]

EmptyObject == JObj(<< >>)

\* The double a number literal denotes: a literal beyond the double range is Infinity.
ToDouble(lit) == IF lit = "1e999" THEN "Infinity" ELSE lit

\* JSON.parse on a well-formed text: the JS value of the document.
RECURSIVE JSONParse(_)
JSONParse(d) ==
    CASE d.t = "num" -> JNum(ToDouble(d.num))
      [] d.t = "arr" -> JArr([i \in DOMAIN d.items |-> JSONParse(d.items[i])])
      [] d.t = "obj" -> JObj([k \in DOMAIN d.members |-> JSONParse(d.members[k])])
      [] OTHER -> d

\* JSON.stringify, read back as a document: a non-finite number is written null.
RECURSIVE JSONStringify(_)
JSONStringify(v) ==
    CASE v.t = "num" -> IF v.num = "Infinity" THEN JNull ELSE JNum(v.num)
      [] v.t = "arr" -> JArr([i \in DOMAIN v.items |-> JSONStringify(v.items[i])])
      [] v.t = "obj" -> JObj([k \in DOMAIN v.members |-> JSONStringify(v.members[k])])
      [] OTHER -> v

----------------------------------------------------------------------------
(* Request bodies as the middleware sees them *)

\* A body text: a well-formed JSON text, a malformed one, or the empty text.
WellFormed(d) == [kind |-> "json", doc |-> d]
Garbage(c) == [kind |-> "garbage", first |-> c]
EmptyText == [kind |-> "empty"]

DocObject == JObj([test |-> JStr("hello")])
DocArray == JArr(<<JBool(TRUE), JStr("a")>>)
DocHuge == JObj([n |-> JNum("1e999")])
DocNumber == JNum("42")

Texts == { WellFormed(DocObject), WellFormed(DocArray), WellFormed(DocHuge),
           WellFormed(DocNumber), Garbage("n"), Garbage("{"), EmptyText }

\* The first character of a text, whitespace skipped ("" when there is none).
FirstChar(text) ==
    CASE text.kind = "empty" -> ""
      [] text.kind = "garbage" -> text.first
      [] text.doc.t = "obj" -> "{"
      [] text.doc.t = "arr" -> "["
      [] text.doc.t = "str" -> "\""
      [] text.doc.t = "null" -> "n"
      [] text.doc.t = "bool" -> IF text.doc.bool THEN "t" ELSE "f"
      [] OTHER -> "0"

NoBody == [kind |-> "none"]
\* ctype: "json" (application/json), "json-latin1" (application/json;
\* charset=iso-8859-1), "text" (any other type).  big: longer than the limit.
Body(ctype, text, big) == [kind |-> "body", ctype |-> ctype, text |-> text, big |-> big]

Request(method, path, body) == [method |-> method, path |-> path, body |-> body]

\* The requests clients send.
Requests ==
    { Request("GET", p, NoBody) : p \in {"/health", "/", "/api/info", "/nope"} }
    \cup { Request("POST", "/api/echo", Body("json", t, FALSE)) : t \in Texts }
    \cup { Request("POST", "/api/echo", Body("text", Garbage("n"), FALSE)),
           Request("POST", "/api/echo", Body("json-latin1", WellFormed(DocObject), FALSE)),
           Request("POST", "/api/echo", Body("json", WellFormed(DocObject), TRUE)),
           Request("GET", "/health", Body("json", Garbage("n"), FALSE)),
           Request("GET", "/", Body("json", Garbage("n"), FALSE)) }

----------------------------------------------------------------------------
(* Time *)

\* A formatting that rounds the seconds instead of truncating them.
ToISOStringRounding(ms) == [sec |-> (ms + 500) \div 1000, msec |-> ms % 1000]

\* Date.prototype.toISOString, to the fields this model tells apart.
ToISOString(ms) == [sec |-> ms \div 1000, msec |-> ms % 1000]

\* Date.parse of such a string: ms since the epoch.
DateParse(s) == s.sec * 1000 + s.msec

\* An uptime taken from the wall clock.
uptimeFromWall == wall - WallStart

\* process.uptime(): monotonic time since process start.
uptime == mono - startMono

----------------------------------------------------------------------------
(* Configuration *)

\* process.env.NAME ?? dflt: only a name that is not set gets the default.
EnvOrNullish(e, name, dflt) == IF name \in DOMAIN e THEN e[name] ELSE dflt

\* process.env.NAME || dflt
EnvOr(e, name, dflt) == IF name \in DOMAIN e /\ e[name] # "" THEN e[name] ELSE dflt

Envs == { << >>,
          [PORT |-> "8080", NODE_ENV |-> "production"],
          [PORT |-> "", NODE_ENV |-> ""],
          [PORT |-> "0"] }

----------------------------------------------------------------------------
(* The JSON middleware, app.use(express.json()) *)

Undefined == [t |-> "undefined"]

\* req.body of a request the middleware does not parse: {} up to express 4,
\* left undefined from express 5.
Unparsed == IF express = 4 THEN EmptyObject ELSE Undefined

Proceed(body) == [kind |-> "next", body |-> body]
Fail(status, type) == [kind |-> "error", status |-> status, type |-> type]
ReadBody == [kind |-> "read"]

\* A middleware that parses a body of any content type (type: '*/*').
jsonParserAnyType(r) ==
    CASE r.body.kind = "none" -> Proceed(Unparsed)
      [] r.body.ctype = "json-latin1" -> Fail(415, "charset.unsupported")
      [] OTHER -> ReadBody

\* The middleware's own turn: skip a request without a body or of another
\* content type, refuse a charset outside utf-*, otherwise read the body.
jsonParser(r) ==
    CASE r.body.kind = "none" -> Proceed(Unparsed)
      [] r.body.ctype = "text" -> Proceed(Unparsed)
      [] r.body.ctype = "json-latin1" -> Fail(415, "charset.unsupported")
      [] OTHER -> ReadBody

\* A parse that answers a text it cannot parse with the empty object.
parseLenient(text) ==
    IF text.kind = "json" /\ FirstChar(text) \in {"{", "["}
    THEN Proceed(JSONParse(text.doc))
    ELSE Proceed(EmptyObject)

\* parse(body): the empty text is {}, strict mode accepts only a text that
\* starts an object or an array, and JSON.parse rejects a malformed one.
parse(text) ==
    CASE text.kind = "empty" -> Proceed(EmptyObject)
      [] FirstChar(text) \notin {"{", "["} -> Fail(400, "entity.parse.failed")
      [] text.kind = "garbage" -> Fail(400, "entity.parse.failed")
      [] OTHER -> Proceed(JSONParse(text.doc))

\* read(req, ...): the body has been read; over the limit it is refused,
\* otherwise it is parsed.
read(r) ==
    IF r.body.big THEN Fail(413, "entity.too.large") ELSE parse(r.body.text)

----------------------------------------------------------------------------
(* The route handlers *)

Response(status, body) == [status |-> status, body |-> body]

IsGet(r, path) == r.method = "GET" /\ r.path = path

\* A health handler that reports the failures seen so far.
HealthHandlerDegrading ==
    IF \E i \in DOMAIN log : log[i].res.status >= 400
    THEN Response(503, [status |-> "unhealthy",
                        timestamp |-> ToISOString(wall),
                        service |-> "node-devops-server"])
    ELSE Response(200, [status |-> "healthy",
                        timestamp |-> ToISOString(wall),
                        service |-> "node-devops-server"])

\* A health handler that builds its report once and sends it again afterwards.
HealthHandlerCached ==
    IF \E i \in DOMAIN log : log[i].res.status = 200 /\ IsGet(log[i].req, "/health")
    THEN log[CHOOSE i \in DOMAIN log :
                 log[i].res.status = 200 /\ IsGet(log[i].req, "/health")].res
    ELSE Response(200, [status |-> "healthy",
                        timestamp |-> ToISOString(wall),
                        service |-> "node-devops-server"])

\* app.get('/health')
HealthHandler ==
    Response(200, [status |-> "healthy",
                   timestamp |-> ToISOString(wall),
                   service |-> "node-devops-server"])

\* app.get('/')
RootHandler ==
    Response(200, [message |-> "Welcome to Node.js DevOps Server",
                   version |-> "1.0.0",
                   environment |-> EnvOr(env, "NODE_ENV", "development"),
                   timestamp |-> ToISOString(wall)])

\* An info handler that refuses to report under memory pressure.
InfoHandlerGuarded(mem) ==
    IF mem > 1
    THEN Response(503, [error |-> "memory.pressure"])
    ELSE Response(200, [service |-> "node-devops-server",
                        version |-> "1.0.0",
                        uptime |-> uptime,
                        memory |-> mem,
                        platform |-> "linux",
                        nodeVersion |-> "v18"])

\* app.get('/api/info'); mem is what process.memoryUsage() returns at the call.
InfoHandler(mem) ==
    Response(200, [service |-> "node-devops-server",
                   version |-> "1.0.0",
                   uptime |-> uptime,
                   memory |-> mem,
                   platform |-> "linux",
                   nodeVersion |-> "v18"])

\* An echo handler that reflects req.params, which these routes leave empty.
EchoHandlerParams(body) ==
    Response(200, [message |-> "Echo endpoint",
                   received |-> JSONStringify(EmptyObject),
                   timestamp |-> ToISOString(wall)])

\* An echo handler that numbers its responses.
EchoHandlerCounting(body) ==
    Response(200, [message |-> "Echo endpoint",
                   received |-> JSONStringify(IF body = Undefined THEN EmptyObject ELSE body),
                   count |-> Len(log) + 1,
                   timestamp |-> ToISOString(wall)])

\* app.post('/api/echo'); res.json leaves an undefined property out.
EchoHandler(body) ==
    IF body = Undefined
    THEN Response(200, [message |-> "Echo endpoint",
                        timestamp |-> ToISOString(wall)])
    ELSE Response(200, [message |-> "Echo endpoint",
                        received |-> JSONStringify(body),
                        timestamp |-> ToISOString(wall)])

\* The method a route is asked for: a route without a HEAD handler takes a
\* HEAD request with its GET handler.
RouteMethod(method) == IF method = "HEAD" THEN "GET" ELSE method

\* The path as the patterns of the routes see it: with the router's defaults
\* (caseSensitive and strict off) letter case and a trailing slash do not
\* count.  The paths of the model's requests, each with the path it stands for.
RoutePath(path) ==
    CASE path \in {"/health/", "/HEALTH"} -> "/health"
      [] path \in {"/api/info/", "/API/INFO"} -> "/api/info"
      [] path \in {"/api/echo/", "/API/ECHO"} -> "/api/echo"
      [] OTHER -> path

\* The methods of the routes registered on a path, as the Allow header lists them.
Allow(path) ==
    CASE RoutePath(path) \in {"/health", "/", "/api/info"} -> "GET,HEAD"
      [] RoutePath(path) = "/api/echo" -> "POST"
      [] OTHER -> ""

\* Whether a route handler runs for the request.
Routed(r) ==
    \/ RouteMethod(r.method) = "GET" /\ RoutePath(r.path) \in {"/health", "/", "/api/info"}
    \/ RouteMethod(r.method) = "POST" /\ RoutePath(r.path) = "/api/echo"

\* What a response looks like on the wire: the response to HEAD has no body.
OnWire(r, res) == IF r.method = "HEAD" THEN Response(res.status, << >>) ELSE res

\* A router with a last route that answers whatever no other route took.
RouteCatchAll(r, body, mem) ==
    LET m == RouteMethod(r.method)
        p == RoutePath(r.path)
    IN  OnWire(r,
          CASE m = "GET" /\ p = "/health" -> HealthHandler
            [] m = "GET" /\ p = "/" -> RootHandler
            [] m = "GET" /\ p = "/api/info" -> InfoHandler(mem)
            [] m = "POST" /\ p = "/api/echo" -> EchoHandler(body)
            [] OTHER -> RootHandler)

\* The router: the first route whose method and path match; OPTIONS on the
\* path of a route is answered by the router itself with the Allow header;
\* anything else falls through to the final handler's 404.
Route(r, body, mem) ==
    LET m == RouteMethod(r.method)
        p == RoutePath(r.path)
    IN  OnWire(r,
          CASE m = "GET" /\ p = "/health" -> HealthHandler
            [] m = "GET" /\ p = "/" -> RootHandler
            [] m = "GET" /\ p = "/api/info" -> InfoHandler(mem)
            [] m = "POST" /\ p = "/api/echo" -> EchoHandler(body)
            [] r.method = "OPTIONS" /\ Allow(p) # "" -> Response(200, [allow |-> Allow(p)])
            [] OTHER -> Response(404, [error |-> "not.found"]))

\* No error middleware is registered: express's final handler answers an
\* error with its status (500 when it carries none) and an error page.
finalhandler(status, type) == Response(status, [error |-> type])

Sent(res) == [kind |-> "sent", res |-> res]
Uncaught == [kind |-> "uncaught"]

\* A router that lets what a handler throws escape.
handle_requestUncaught(r, body, mem, throws) ==
    IF throws THEN Uncaught ELSE Sent(Route(r, body, mem))

\* The router calls a handler inside try/catch and hands what it throws to
\* the final handler; throws tells whether the handler throws.
handle_request(r, body, mem, throws) ==
    IF throws
    THEN Sent(finalhandler(500, "handler.threw"))
    ELSE Sent(Route(r, body, mem))

\* Whether a handler runs for request r after middleware outcome o, and throws.
Throws(r, o, fault) == fault /\ o.kind = "next" /\ Routed(r)

\* What the application does with the middleware's outcome o for request r.
handle(r, o, mem, fault) ==
    IF o.kind = "error"
    THEN Sent(finalhandler(o.status, o.type))
    ELSE handle_request(r, o.body, mem, Throws(r, o, fault))

----------------------------------------------------------------------------
(* The process *)

Mems == {1, 2}

----------------------------------------------------------------------------
(* The pipelines: ci.yml on every push, cd.yml on a manual trigger *)

ECR_REPOSITORY == "node-devops-fargate"
ECR_REGISTRY == "123456789.dkr.ecr.us-east-1.amazonaws.com"

\* The commits of the repository, by SHA.
Commits == {"abc123def", "def456abc"}

\* The inputs of workflow_dispatch.
Environments == {"production", "staging"}
ImageTags == {"", "v1.0.0"}

\* The runs of the CD workflow.
Runs == 1..MaxRuns

\* An image, told apart by the build that made it.
Image(builder, sha) == [builder |-> builder, sha |-> sha]
NoImage == [builder |-> "none"]

\* A docker reference: registry/repository:tag, registry "" for a local name.
Ref(registry, tag) == [registry |-> registry, repository |-> ECR_REPOSITORY, tag |-> tag]

\* The tags of the repository in ECR.
Tags == Commits \cup (ImageTags \ {""}) \cup {e \o "-latest" : e \in Environments} \cup {"latest"}

NotRun == [pc |-> "idle"]

\* No pipeline has run.
PipelineIdle ==
    /\ ci = [c \in Commits |-> "none"]
    /\ run = [i \in Runs |-> NotRun]
    /\ ecr = [t \in Tags |-> NoImage]
    /\ smoke = {}

\* The test client has not been started.
ClientIdle == [pc |-> "idle", k |-> 1, sent |-> << >>, out |-> << >>, exit |-> -1]

\* The container has been started and no probe has run.
HealthStarting == [status |-> "starting", streak |-> 0, probes |-> << >>]

\* The setup script has not been started.
SetupIdle ==
    [pc |-> "idle", runs |-> 0, ran |-> << >>, out |-> << >>, temp |-> FALSE,
     exit |-> -1, account |-> "", cloud |-> {}]

\* A response without the fields that vary with time and memory.
Stable(res) ==
    [status |-> res.status,
     body |-> [k \in DOMAIN res.body \ {"timestamp", "uptime", "memory"} |-> res.body[k]]]

\* The response to r of a process that serves nothing else, time and memory
\* apart; status 0 stands for no response.
Alone(r) ==
    LET o == jsonParser(r)
        out == handle(r, IF o.kind = "read" THEN read(r) ELSE o, 1, FALSE)
    IN  IF out.kind = "sent" THEN Stable(out.res) ELSE [status |-> 0, body |-> << >>]

Init ==
    /\ proc = "starting"
    /\ exitCode = -1
    /\ env \in Envs
    /\ PORT = EnvOr(env, "PORT", "3000")
    /\ express \in {4, 5}
    /\ mono = 0
    /\ startMono = 0
    /\ wall = WallStart
    /\ wallSets = 0
    /\ nreq = 0
    /\ thrown = 0
    /\ inflight = {}
    /\ log = << >>
    /\ alone = [r \in Requests |-> Alone(r)]
    /\ stdout = << >>
    /\ stderr = << >>
    /\ bound = -1
    /\ signal = "none"
    /\ PipelineIdle
    /\ client = ClientIdle
    /\ health = HealthStarting
    /\ setup = SetupIdle

\* The port number server.listen takes from its argument.
toNumber(p) ==
    CASE p = "3000" -> 3000
      [] p = "8080" -> 8080
      [] OTHER -> 0

\* The ports the system gives a socket that asks for port 0.
Ephemeral == {49152}

\* What the callback of app.listen writes.
Banner ==
    << [line |-> "Server is running on port", port |-> PORT],
       [line |-> "Environment:", environment |-> EnvOr(env, "NODE_ENV", "development")] >>

\* app.listen(PORT, '0.0.0.0', callback): the port is bound and the callback
\* runs.
Listening ==
    /\ proc = "starting"
    /\ proc' = "listening"
    /\ bound' \in (IF toNumber(PORT) = 0 THEN Ephemeral ELSE {toNumber(PORT)})
    /\ stdout' = stdout \o Banner
    /\ UNCHANGED <<exitCode, env, PORT, express, mono, startMono, wall, wallSets,
                   nreq, thrown, alone, inflight, log, stderr, signal, pipeline, tools>>

\* app.listen: the bind fails and the server emits 'error'.  Up to express 4
\* the event has no listener: it is thrown, the runtime writes the error to
\* standard error and the process exits with status 1.  From express 5
\* app.listen registers the callback for 'error' as well: the callback, which
\* does not look at its argument, runs, and the process, with nothing left to
\* wait for, exits with status 0.
ListenError ==
    /\ proc = "starting"
    /\ proc' = "exited"
    /\ IF express = 4
       THEN /\ exitCode' = 1
            /\ stderr' = Append(stderr, "Error: listen EADDRINUSE")
            /\ stdout' = stdout
       ELSE /\ exitCode' = 0
            /\ stdout' = stdout \o Banner
            /\ stderr' = stderr
    /\ UNCHANGED <<env, PORT, express, mono, startMono, wall, wallSets,
                   nreq, thrown, alone, inflight, log, bound, signal, pipeline, tools>>

Entry(r, res) == [req |-> r, res |-> res]

\* An error handler that ends the process once it has answered an error.
FinishExitOnError(r, out) ==
    IF out.kind = "uncaught" \/ out.res.status >= 400
    THEN /\ proc' = "exited"
         /\ exitCode' = 1
         /\ log' = IF out.kind = "uncaught" THEN log ELSE Append(log, Entry(r, out.res))
         /\ UNCHANGED <<env, PORT, express, startMono>>
    ELSE /\ log' = Append(log, Entry(r, out.res))
         /\ UNCHANGED <<proc, exitCode, env, PORT, express, startMono>>

\* A handler that stores the environment label it defaulted in process.env.
FinishCachingEnv(r, out) ==
    IF out.kind = "uncaught"
    THEN /\ proc' = "exited"
         /\ exitCode' = 1
         /\ UNCHANGED <<env, PORT, express, startMono, log>>
    ELSE /\ log' = Append(log, Entry(r, out.res))
         /\ env' = [k \in DOMAIN env \cup {"NODE_ENV"} |->
                      IF k = "NODE_ENV" THEN EnvOr(env, "NODE_ENV", "development")
                      ELSE env[k]]
         /\ UNCHANGED <<proc, exitCode, PORT, express, startMono>>

\* A handler that leaves process.env without NODE_ENV once it has answered.
FinishClearingEnv(r, out) ==
    IF out.kind = "uncaught"
    THEN /\ proc' = "exited"
         /\ exitCode' = 1
         /\ UNCHANGED <<env, PORT, express, startMono, log>>
    ELSE /\ log' = Append(log, Entry(r, out.res))
         /\ env' = [k \in DOMAIN env \ {"NODE_ENV"} |-> env[k]]
         /\ UNCHANGED <<proc, exitCode, PORT, express, startMono>>

\* The end of a request's processing: the response is sent, or the error
\* nothing caught ends the process.
Finish(r, out) ==
    IF out.kind = "uncaught"
    THEN /\ proc' = "exited"
         /\ exitCode' = 1
         /\ UNCHANGED <<env, PORT, express, startMono, log>>
    ELSE /\ log' = Append(log, Entry(r, out.res))
         /\ UNCHANGED <<proc, exitCode, env, PORT, express, startMono>>

\* A request arrives: the middleware runs, and unless it has a body to read
\* the route handler answers in the same turn.
Accept(r, fault) ==
    /\ proc = "listening"
    /\ nreq < MaxReq
    /\ nreq' = nreq + 1
    /\ LET o == jsonParser(r) IN
         IF o.kind = "read"
         THEN /\ inflight' = inflight \cup {[id |-> nreq + 1, req |-> r]}
              /\ UNCHANGED <<proc, exitCode, env, PORT, express, startMono, thrown, log>>
         ELSE /\ \E mem \in Mems : Finish(r, handle(r, o, mem, fault))
              /\ thrown' = IF Throws(r, o, fault) THEN thrown + 1 ELSE thrown
              /\ UNCHANGED inflight
    /\ UNCHANGED <<mono, wall, wallSets, alone>>
    /\ UNCHANGED <<host, pipeline, tools>>

\* A server that finishes reading bodies in the order the requests arrived.
BodyEndInOrder(x, fault) ==
    /\ proc = "listening"
    /\ x \in inflight
    /\ \A y \in inflight : x.id <= y.id
    /\ inflight' = inflight \ {x}
    /\ \E mem \in Mems : Finish(x.req, handle(x.req, read(x.req), mem, fault))
    /\ thrown' = IF Throws(x.req, read(x.req), fault) THEN thrown + 1 ELSE thrown
    /\ UNCHANGED <<mono, wall, wallSets, nreq, alone>>
    /\ UNCHANGED <<host, pipeline, tools>>

\* The body of an in-flight request has been read.
BodyEnd(x, fault) ==
    /\ proc = "listening"
    /\ x \in inflight
    /\ inflight' = inflight \ {x}
    /\ \E mem \in Mems : Finish(x.req, handle(x.req, read(x.req), mem, fault))
    /\ thrown' = IF Throws(x.req, read(x.req), fault) THEN thrown + 1 ELSE thrown
    /\ UNCHANGED <<mono, wall, wallSets, nreq, alone>>
    /\ UNCHANGED <<host, pipeline, tools>>

\* Time passes.
Tick ==
    /\ proc # "exited"
    /\ mono < MaxTicks
    /\ mono' = mono + 1
    /\ wall' = wall + 1
    /\ UNCHANGED <<proc, exitCode, env, PORT, express, startMono, wallSets,
                   nreq, thrown, alone, inflight, log>>
    /\ UNCHANGED <<host, pipeline, tools>>

\* The system clock is set back (clock synchronisation, an operator): the
\* wall clock moves, the monotonic clock does not.
SetWallBack ==
    /\ proc # "exited"
    /\ wallSets < MaxWallSets
    /\ wall' = wall - 1
    /\ wallSets' = wallSets + 1
    /\ UNCHANGED <<proc, exitCode, env, PORT, express, mono, startMono,
                   nreq, thrown, alone, inflight, log>>
    /\ UNCHANGED <<host, pipeline, tools>>

Next ==
    \/ Listening
    \/ ListenError
    \/ \E r \in Requests : Accept(r, FALSE)
    \/ \E x \in inflight : BodyEnd(x, FALSE)
    \/ Tick
    \/ SetWallBack

Spec == Init /\ [][Next]_vars

\* The same process with handlers that may throw.
NextFault ==
    \/ Listening
    \/ ListenError
    \/ \E r \in Requests, fault \in BOOLEAN : Accept(r, fault)
    \/ \E x \in inflight, fault \in BOOLEAN : BodyEnd(x, fault)
    \/ Tick
    \/ SetWallBack

SpecFault == Init /\ [][NextFault]_vars

\* SIGTERM is sent to the process, which registers no handler for it.  Started
\* from a shell the default disposition ends it at once; as process 1 of its
\* container (pid1) a signal without a handler is not delivered, and the
\* process goes on.
Sigterm(pid1) ==
    /\ proc # "exited"
    /\ signal = "none"
    /\ signal' = "SIGTERM"
    /\ IF pid1
       THEN UNCHANGED <<proc, exitCode>>
       ELSE proc' = "exited" /\ exitCode' = 143
    /\ UNCHANGED <<env, PORT, express, mono, startMono, wall, wallSets,
                   nreq, thrown, alone, inflight, log, stdout, stderr, bound, pipeline, tools>>

\* The container runtime, its grace period over, kills the process.
Sigkill ==
    /\ proc # "exited"
    /\ signal = "SIGTERM"
    /\ signal' = "SIGKILL"
    /\ proc' = "exited"
    /\ exitCode' = 137
    /\ UNCHANGED <<env, PORT, express, mono, startMono, wall, wallSets,
                   nreq, thrown, alone, inflight, log, stdout, stderr, bound, pipeline, tools>>

\* The same process with termination signals.
NextSignal ==
    \/ Listening
    \/ ListenError
    \/ \E r \in Requests : Accept(r, FALSE)
    \/ \E x \in inflight : BodyEnd(x, FALSE)
    \/ Tick
    \/ SetWallBack
    \/ \E pid1 \in BOOLEAN : Sigterm(pid1)
    \/ Sigkill

SpecSignal == Init /\ [][NextSignal]_vars

----------------------------------------------------------------------------
(* The steps of the pipelines *)

\* The state of the server process, which no pipeline step touches.
server == <<proc, exitCode, env, PORT, express, mono, startMono, wall, wallSets,
            nreq, thrown, alone, inflight, log>>

\* ci.yml, on the push of commit c: install, audit, build the image, run the
\* container and check its health endpoint; ok tells whether every step passes.
CIPipeline(c, ok) ==
    /\ ci[c] = "none"
    /\ ci' = [ci EXCEPT ![c] = IF ok THEN "passed" ELSE "failed"]
    /\ smoke' = IF ok THEN smoke \cup {Image("ci", c)} ELSE smoke
    /\ UNCHANGED <<run, ecr, server, host, tools>>

\* Run workflow: the CD workflow is started by hand on a commit, with its inputs.
Dispatch(i, sha, environment, image_tag) ==
    /\ run[i].pc = "idle"
    /\ \A j \in Runs : j < i => run[j].pc # "idle"
    /\ run' = [run EXCEPT ![i] =
                 [pc |-> "check-ci-status", sha |-> sha, environment |-> environment,
                  image_tag |-> image_tag, IMAGE_TAG |-> "", image |-> NoImage,
                  local |-> << >>, pushed |-> << >>, summary |-> << >>, seq |-> 0]]
    /\ UNCHANGED <<ci, ecr, smoke, server, host, tools>>

\* Job check-ci-status: checks out the code and echoes two lines.
CheckCIStatus(i) ==
    /\ run[i].pc = "check-ci-status"
    /\ run' = [run EXCEPT ![i].pc = "set-tag"]
    /\ UNCHANGED <<ci, ecr, smoke, server, host, tools>>

\* A set-tag step that always takes the commit SHA.
ImageTagFromSha(image_tag, sha) == sha

\* Step "Set image tag": the commit SHA when the input is empty, else the input.
ImageTag(image_tag, sha) == IF image_tag = "" THEN sha ELSE image_tag

SetImageTag(i) ==
    /\ run[i].pc = "set-tag"
    /\ run' = [run EXCEPT ![i].pc = "build",
                          ![i].IMAGE_TAG = ImageTag(run[i].image_tag, run[i].sha)]
    /\ UNCHANGED <<ci, ecr, smoke, server, host, tools>>

\* docker build -t $ECR_REPOSITORY:$IMAGE_TAG .
Build(i) ==
    /\ run[i].pc = "build"
    /\ run' = [run EXCEPT ![i].pc = "tag",
                          ![i].image = Image(i, run[i].sha),
                          ![i].local = Ref("", run[i].IMAGE_TAG) :> Image(i, run[i].sha)]
    /\ UNCHANGED <<ci, ecr, smoke, server, host, tools>>

\* The tags a run gives its image in the registry, in the order it pushes them.
PushOrder(r) == <<r.IMAGE_TAG, r.environment \o "-latest", "latest">>

\* The three docker tag commands, each from $ECR_REPOSITORY:$IMAGE_TAG.
TagImages(i) ==
    /\ run[i].pc = "tag"
    /\ LET src == Ref("", run[i].IMAGE_TAG)
           dst == {Ref(ECR_REGISTRY, PushOrder(run[i])[k]) : k \in 1..3}
       IN  run' = [run EXCEPT ![i].pc = "push",
                              ![i].local = [d \in dst |-> run[i].local[src]] @@ run[i].local]
    /\ UNCHANGED <<ci, ecr, smoke, server, host, tools>>

\* The next of the three docker push commands.
Push(i) ==
    /\ run[i].pc = "push"
    /\ LET k == Len(run[i].pushed) + 1
           t == PushOrder(run[i])[k]
       IN  /\ ecr' = [ecr EXCEPT ![t] = run[i].local[Ref(ECR_REGISTRY, t)]]
           /\ run' = [run EXCEPT ![i].pc = IF k = 3 THEN "summary" ELSE "push",
                                 ![i].pushed = Append(run[i].pushed, t)]
    /\ UNCHANGED <<ci, smoke, server, host, tools>>

\* The number of runs that have completed.
Completed == Cardinality({j \in Runs : run[j].pc = "done"})

\* Step "Deployment Summary".
DeploymentSummary(i) ==
    /\ run[i].pc = "summary"
    /\ run' = [run EXCEPT ![i].pc = "done",
                          ![i].seq = Completed + 1,
                          ![i].summary = [environment |-> run[i].environment,
                                          tag |-> run[i].IMAGE_TAG,
                                          uri |-> Ref(ECR_REGISTRY, run[i].IMAGE_TAG)]]
    /\ UNCHANGED <<ci, ecr, smoke, server, host, tools>>

\* A step of the run fails (checkout, credentials, login, build, network): the
\* rest of the run is skipped, and the runner goes with its step outputs and
\* its local images.
StepFails(i) ==
    /\ run[i].pc \in {"check-ci-status", "set-tag", "build", "tag", "push", "summary"}
    /\ run' = [run EXCEPT ![i].pc = "failed", ![i].IMAGE_TAG = "",
                          ![i].image = NoImage, ![i].local = << >>,
                          ![i].pushed = << >>]
    /\ UNCHANGED <<ci, ecr, smoke, server, host, tools>>

InitPipeline == Init /\ env = << >> /\ express = 4

NextPipeline ==
    \/ \E c \in Commits, ok \in BOOLEAN : CIPipeline(c, ok)
    \/ \E i \in Runs, sha \in Commits, environment \in Environments, image_tag \in ImageTags :
          Dispatch(i, sha, environment, image_tag)
    \/ \E i \in Runs : CheckCIStatus(i)
    \/ \E i \in Runs : SetImageTag(i)
    \/ \E i \in Runs : Build(i)
    \/ \E i \in Runs : TagImages(i)
    \/ \E i \in Runs : Push(i)
    \/ \E i \in Runs : DeploymentSummary(i)
    \/ \E i \in Runs : StepFails(i)

SpecPipeline == InitPipeline /\ [][NextPipeline]_vars

\* The CD workflow on its own.
NextCD ==
    \/ \E i \in Runs, sha \in Commits, environment \in Environments, image_tag \in ImageTags :
          Dispatch(i, sha, environment, image_tag)
    \/ \E i \in Runs : CheckCIStatus(i)
    \/ \E i \in Runs : SetImageTag(i)
    \/ \E i \in Runs : Build(i)
    \/ \E i \in Runs : TagImages(i)
    \/ \E i \in Runs : Push(i)
    \/ \E i \in Runs : DeploymentSummary(i)
    \/ \E i \in Runs : StepFails(i)

SpecCD == InitPipeline /\ [][NextCD]_vars

----------------------------------------------------------------------------
(* Vocabulary of the properties *)

Entries == {log[i] : i \in DOMAIN log}

IsEcho(r) == r.method = "POST" /\ r.path = "/api/echo"

Healthy(res) == res.status = 200 /\ res.body.status = "healthy"
ClientError(res) == res.status >= 400 /\ res.status <= 499

----------------------------------------------------------------------------
(* C1 *)

\* C1 as stated: every GET /health request is answered 200 with status
\* "healthy"; no /health response has another status code or status value.
C1_HealthAlwaysHealthy ==
    \A e \in Entries : IsGet(e.req, "/health") => Healthy(e.res)

\* C1, amended: a GET /health request that carries no body is answered 200
\* with status "healthy" after any sequence of earlier requests; one that
\* carries a body is answered the same unless the JSON middleware refuses the
\* body with a 400-class response before the handler runs; no /health response
\* carries a status value other than "healthy".
C1_HealthHealthyUnlessBodyRefused ==
    \A e \in Entries :
        IsGet(e.req, "/health") =>
            /\ e.req.body = NoBody => Healthy(e.res)
            /\ Healthy(e.res) \/ (e.req.body # NoBody /\ ClientError(e.res))

\* A bodyless GET /health answered right after a request that failed.
C1_Witness ==
    /\ proc = "listening"
    /\ Len(log) = 2
    /\ log[1].res.status = 400
    /\ log[2].req = Request("GET", "/health", NoBody)
    /\ Healthy(log[2].res)

----------------------------------------------------------------------------
(* C2 *)

HasText(r) == r.body.kind = "body"
ValidJson(r) == HasText(r) /\ r.body.text.kind = "json"

Echoed(e) ==
    /\ e.res.status = 200
    /\ e.res.body.message = "Echo endpoint"
    /\ "received" \in DOMAIN e.res.body
    /\ e.res.body.received = e.req.body.text.doc

\* C2 as stated: every valid JSON value sent as the body of POST /api/echo is
\* answered 200 with message "Echo endpoint" and a received field equal to it.
C2_EchoReflectsEveryJsonValue ==
    \A e \in Entries : IsEcho(e.req) /\ ValidJson(e.req) => Echoed(e)

\* Every number of the document is one a double holds exactly.
RECURSIVE Exact(_)
Exact(d) ==
    CASE d.t = "num" -> ToDouble(d.num) = d.num
      [] d.t = "arr" -> \A i \in DOMAIN d.items : Exact(d.items[i])
      [] d.t = "obj" -> \A k \in DOMAIN d.members : Exact(d.members[k])
      [] OTHER -> TRUE

\* The requests the amended C2 covers.
EchoableJson(r) ==
    /\ ValidJson(r)
    /\ r.body.ctype = "json"
    /\ ~r.body.big
    /\ r.body.text.doc.t \in {"obj", "arr"}
    /\ Exact(r.body.text.doc)

\* C2, amended: every JSON object or array whose numbers are doubles, sent to
\* POST /api/echo as application/json in a utf charset and within the body
\* size limit, is answered 200 with message "Echo endpoint" and a received
\* field equal to it.
C2_EchoReflectsObjectsAndArrays ==
    \A e \in Entries : IsEcho(e.req) /\ EchoableJson(e.req) => Echoed(e)

\* The object and the array have both been echoed.
C2_Witness ==
    /\ Len(log) = 2
    /\ IsEcho(log[1].req) /\ EchoableJson(log[1].req)
    /\ log[1].req.body.text.doc = DocObject
    /\ log[1].res.body.received = DocObject
    /\ IsEcho(log[2].req) /\ EchoableJson(log[2].req)
    /\ log[2].res.body.received = DocArray

----------------------------------------------------------------------------
(* C3 *)

Malformed(r) == HasText(r) /\ r.body.text.kind # "json"

\* C3 as stated: every POST /api/echo whose body is not valid JSON is answered
\* with a 400-class status, and the process is still running.
C3_MalformedAlwaysRefused ==
    \A e \in Entries :
        IsEcho(e.req) /\ Malformed(e.req) => ClientError(e.res) /\ proc = "listening"

\* C3, amended: every POST /api/echo whose body is declared as JSON
\* (Content-Type application/json), is not empty and is not valid JSON is
\* answered with a 400-class status, never with 200, and the process keeps
\* running.
C3_DeclaredMalformedRefused ==
    \A e \in Entries :
        ( /\ IsEcho(e.req)
          /\ Malformed(e.req)
          /\ e.req.body.ctype \in {"json", "json-latin1"}
          /\ e.req.body.text.kind # "empty" )
        => ClientError(e.res) /\ proc = "listening"

\* The text not-json, declared as JSON, has been refused with 400.
C3_Witness ==
    /\ proc = "listening"
    /\ \E e \in Entries :
         /\ e.req = Request("POST", "/api/echo", Body("json", Garbage("n"), FALSE))
         /\ e.res.status = 400

----------------------------------------------------------------------------
(* C4 *)

BadRequest(e) == Malformed(e.req) /\ e.res = Response(400, [error |-> "entity.parse.failed"])

AsAlone(e) == Stable(e.res) = alone[e.req]

\* C4: once a malformed POST /api/echo has been answered BadRequest, the
\* process is still listening, still accepts every request, and has answered
\* every later request as it answers that request alone, time, uptime and
\* memory apart.
C4_BadRequestNotFatal ==
    \A i \in DOMAIN log :
        BadRequest(log[i]) =>
            /\ proc = "listening"
            /\ nreq < MaxReq => \A r \in Requests : ENABLED Accept(r, FALSE)
            /\ \A j \in DOMAIN log : j > i => AsAlone(log[j])

\* A well-formed echo answered 200 after a BadRequest.
C4_Witness ==
    /\ Len(log) = 2
    /\ BadRequest(log[1])
    /\ IsEcho(log[1].req)
    /\ log[2].req = Request("POST", "/api/echo", Body("json", WellFormed(DocObject), FALSE))
    /\ log[2].res.status = 200

----------------------------------------------------------------------------
(* C6 *)

\* C6: a request being read can complete whatever else is in flight, a new
\* request is taken whatever is in flight, and every response is the one the
\* process gives that request alone, time, uptime and memory apart.
C6_NoRequestWaits ==
    /\ \A x \in inflight : ENABLED BodyEnd(x, FALSE)
    /\ (proc = "listening" /\ nreq < MaxReq) => \A r \in Requests : ENABLED Accept(r, FALSE)
    /\ \A e \in Entries : AsAlone(e)

\* The second request has been answered while the first is still being read.
C6_Witness ==
    /\ Len(log) = 1
    /\ \E x \in inflight : x.id = 1
    /\ log[1].res.status = 200

----------------------------------------------------------------------------
(* C7 *)

----------------------------------------------------------------------------
(* C5 *)

\* C5: a step that takes a request, reads its body or answers it, with 200
\* or with an error, leaves the process state (running state, exit status,
\* environment, PORT, express, start time) as it was.
C5_ServingLeavesSharedStateUnchanged ==
    [][(nreq' # nreq \/ inflight' # inflight \/ log' # log) => shared' = shared]_vars

\* A request has been answered 200 and another refused.
C5_Witness ==
    /\ Len(log) = 2
    /\ log[1].res.status = 200
    /\ ClientError(log[2].res)

----------------------------------------------------------------------------
(* C8 *)

InfoOk(e) == IsGet(e.req, "/api/info") /\ e.res.status = 200
RootOk(e) == IsGet(e.req, "/") /\ e.res.status = 200

\* C8: the uptime of every GET /api/info response is at least 0, and of two
\* such responses the later one's uptime is at least the earlier one's.
C8_UptimeNonDecreasing ==
    \A i, j \in DOMAIN log :
        InfoOk(log[i]) =>
            /\ log[i].res.body.uptime >= 0
            /\ (i < j /\ InfoOk(log[j])) => log[i].res.body.uptime <= log[j].res.body.uptime

\* Two GET /api/info answered, the second with a larger uptime, the wall clock
\* set back meanwhile.
C8_Witness ==
    /\ Len(log) = 2
    /\ InfoOk(log[1]) /\ InfoOk(log[2])
    /\ log[1].res.body.uptime < log[2].res.body.uptime
    /\ wallSets = 1

----------------------------------------------------------------------------
(* C9 *)

ValidDate(s) == s.sec >= 0 /\ s.msec >= 0 /\ s.msec <= 999

RootTimestampsOrdered ==
    \A i, j \in DOMAIN log :
        (i < j /\ RootOk(log[i]) /\ RootOk(log[j])) =>
            DateParse(log[i].res.body.timestamp) <= DateParse(log[j].res.body.timestamp)

InfoUptimesOrdered ==
    \A i, j \in DOMAIN log :
        (i < j /\ InfoOk(log[i]) /\ InfoOk(log[j])) =>
            log[i].res.body.uptime <= log[j].res.body.uptime

\* C9 as stated: GET / carries a valid timestamp and GET /api/info its
\* uptime-derived field, and of two calls to the same endpoint the second
\* one's is not earlier than the first's.
C9_TimestampsNeverGoBack ==
    /\ \A e \in Entries : RootOk(e) => ValidDate(e.res.body.timestamp)
    /\ RootTimestampsOrdered
    /\ InfoUptimesOrdered

\* C9, amended: GET / carries a timestamp that parses as a valid date-time,
\* and of two GET / calls the second one's timestamp is not earlier than the
\* first's as long as the system clock has not been set back; GET /api/info
\* carries no timestamp but an uptime, which never decreases.
C9_TimestampsFollowTheWallClock ==
    /\ \A e \in Entries : RootOk(e) => ValidDate(e.res.body.timestamp)
    /\ \A e \in Entries : InfoOk(e) => "timestamp" \notin DOMAIN e.res.body
    /\ wallSets = 0 => RootTimestampsOrdered
    /\ InfoUptimesOrdered

\* Two GET / answered on either side of a full second, the clock never set back.
C9_Witness ==
    /\ Len(log) = 2
    /\ RootOk(log[1]) /\ RootOk(log[2])
    /\ log[1].res.body.timestamp.sec < log[2].res.body.timestamp.sec
    /\ wallSets = 0

----------------------------------------------------------------------------
(* C10 *)

ServerError(e) == e.res = finalhandler(500, "handler.threw")

\* C10: every error a route handler throws is answered with status 500, and
\* once one was thrown the process is still listening, still accepts every
\* request, and has answered every later request 500 or as it answers that
\* request alone.
C10_HandlerErrorAnswered500 ==
    /\ Cardinality({i \in DOMAIN log : ServerError(log[i])}) = thrown
    /\ thrown > 0 =>
         /\ proc = "listening"
         /\ nreq < MaxReq => \A r \in Requests : ENABLED Accept(r, FALSE)
    /\ \A i, j \in DOMAIN log :
         (i < j /\ ServerError(log[i])) => ServerError(log[j]) \/ AsAlone(log[j])

\* A handler has thrown, and the next request was answered 200.
C10_Witness ==
    /\ thrown = 1
    /\ Len(log) = 2
    /\ ServerError(log[1])
    /\ log[2].req = Request("GET", "/health", NoBody)
    /\ Healthy(log[2].res)

----------------------------------------------------------------------------
(* C11 *)

BindFailed == proc = "exited" /\ bound = -1 /\ signal = "none"

ReportsRunning == \E i \in DOMAIN stdout : stdout[i].line = "Server is running on port"

\* C11: when binding the listening port fails at startup the process ends
\* with a non-zero exit status and has written a diagnostic message; it does
\* not stay alive without a bound port, and it has not reported that the
\* server is running.
C11_BindFailureIsFatal ==
    /\ BindFailed => exitCode # 0 /\ stderr # << >> /\ ~ReportsRunning
    /\ ReportsRunning => bound # -1
    /\ proc = "listening" => bound # -1

----------------------------------------------------------------------------
(* C12 *)

\* C12: once a termination signal has been received no new request is taken,
\* and the process exits only when every request that was in flight has been
\* answered.
C12_GracefulShutdown ==
    [][ /\ signal # "none" => nreq' = nreq
        /\ (proc # "exited" /\ proc' = "exited" /\ signal' # "none") => inflight = {} ]_vars

----------------------------------------------------------------------------
(* C13 *)

GetRoot == Request("GET", "/", NoBody)

----------------------------------------------------------------------------
(* C14 *)

IsSet(name) == name \in DOMAIN env
NonEmpty(name) == IsSet(name) /\ env[name] # ""

\* The number a string of digits denotes, -1 when it denotes none.
Decimal(str) ==
    CASE str = "8080" -> 8080
      [] str = "3000" -> 3000
      [] str = "0" -> 0
      [] OTHER -> -1

\* C14 as stated: the server listens on the value of PORT when PORT is set
\* and on 3000 when it is not, and GET / reports the value of NODE_ENV when
\* NODE_ENV is set and "development" when it is not.
C14_SetMeansUsed ==
    /\ proc = "listening" =>
          bound = (IF IsSet("PORT") THEN Decimal(env["PORT"]) ELSE 3000)
    /\ \A e \in Entries :
          RootOk(e) =>
              e.res.body.environment =
                  (IF IsSet("NODE_ENV") THEN env["NODE_ENV"] ELSE "development")

\* C14, amended: the server listens on the value of PORT when PORT is set to
\* a port number from 1 to 65535 and on 3000 when PORT is not set or is empty,
\* and GET / reports the value of NODE_ENV when NODE_ENV is set to a non-empty
\* string and "development" when it is not set or is empty.
C14_NonEmptyMeansUsed ==
    /\ proc = "listening" =>
          /\ (NonEmpty("PORT") /\ Decimal(env["PORT"]) \in 1..65535) =>
                bound = Decimal(env["PORT"])
          /\ ~NonEmpty("PORT") => bound = 3000
    /\ \A e \in Entries :
          RootOk(e) =>
              e.res.body.environment =
                  (IF NonEmpty("NODE_ENV") THEN env["NODE_ENV"] ELSE "development")

\* A process started with PORT and NODE_ENV set to the empty string listens
\* on 3000 and reports "development".
C14_Witness ==
    /\ IsSet("PORT") /\ IsSet("NODE_ENV")
    /\ ~NonEmpty("PORT") /\ ~NonEmpty("NODE_ENV")
    /\ bound = 3000
    /\ \E e \in Entries : RootOk(e) /\ e.res.body.environment = "development"

----------------------------------------------------------------------------
(* C15 *)

\* A GetRoot success: 200 with the welcome message, the version constant, the
\* environment name and a timestamp.
RootReport(res) ==
    /\ res.status = 200
    /\ DOMAIN res.body = {"message", "version", "environment", "timestamp"}
    /\ res.body.message = "Welcome to Node.js DevOps Server"
    /\ res.body.version = "1.0.0"
    /\ res.body.environment \in {"development", "production"}
    /\ ValidDate(res.body.timestamp)

\* A GetInfo success: 200 with an InfoReport.
InfoReport(res) ==
    /\ res.status = 200
    /\ DOMAIN res.body = {"service", "version", "uptime", "memory", "platform", "nodeVersion"}
    /\ res.body.service = "node-devops-server"
    /\ res.body.version = "1.0.0"
    /\ res.body.uptime >= 0

\* C15 as stated: every GET / is answered 200 with the welcome message, the
\* version, the environment name and a timestamp, and every GET /api/info is
\* answered 200 with an InfoReport.
C15_RootAndInfoNeverFail ==
    \A e \in Entries :
        /\ IsGet(e.req, "/") => RootReport(e.res)
        /\ IsGet(e.req, "/api/info") => InfoReport(e.res)

\* C15, amended: every GET / and GET /api/info that carries no body is
\* answered 200 with its report; one that carries a body is answered the same
\* unless the JSON middleware refuses the body with a 400-class response
\* before the handler runs.
C15_RootAndInfoFailOnlyOnBody ==
    \A e \in Entries :
        /\ IsGet(e.req, "/") =>
              \/ RootReport(e.res)
              \/ e.req.body # NoBody /\ ClientError(e.res)
        /\ IsGet(e.req, "/api/info") =>
              \/ InfoReport(e.res)
              \/ e.req.body # NoBody /\ ClientError(e.res)

\* A bodyless GET / and a bodyless GET /api/info answered with their reports,
\* the second under the larger memory reading.
C15_Witness ==
    /\ Len(log) = 2
    /\ log[1].req = GetRoot /\ RootReport(log[1].res)
    /\ log[2].req = Request("GET", "/api/info", NoBody) /\ InfoReport(log[2].res)
    /\ log[2].res.body.memory = 2

----------------------------------------------------------------------------
(* C16 *)

\* C16: the StatusReport of every answered health query has exactly the
\* fields status, timestamp and service, with service "node-devops-server",
\* and is made for that query: its timestamp is the clock reading at the time
\* it is sent, not that of a report sent before.
C16_StatusReportFresh ==
    [][ (Len(log') = Len(log) + 1 /\ IsGet(log'[Len(log')].req, "/health")
                                  /\ log'[Len(log')].res.status = 200) =>
          LET report == log'[Len(log')].res.body IN
            /\ DOMAIN report = {"status", "timestamp", "service"}
            /\ report.service = "node-devops-server"
            /\ report.timestamp = [sec |-> wall \div 1000, msec |-> wall % 1000] ]_vars

\* Two health queries answered at different times, with different reports.
C16_Witness ==
    /\ Len(log) = 2
    /\ log[1].req = Request("GET", "/health", NoBody)
    /\ log[2].req = Request("GET", "/health", NoBody)
    /\ Healthy(log[1].res) /\ Healthy(log[2].res)
    /\ log[1].res.body.timestamp # log[2].res.body.timestamp

----------------------------------------------------------------------------
(* C17 *)

\* C17: every image a tag of the registry refers to has been built, run, and
\* has answered a /health poll with 200 before it was pushed.
C17_PushedOnlyAfterSmokeTest ==
    \A t \in Tags : ecr[t] # NoImage => ecr[t] \in smoke

----------------------------------------------------------------------------
(* C18 *)

InDeployJob(r) == r.pc \in {"set-tag", "build", "tag", "push", "summary", "done"}

\* C18: the deploy job of a CD run runs only when the CI pipeline of the
\* commit being deployed has passed.
C18_DeployOnlyAfterCIPassed ==
    \A i \in Runs : InDeployJob(run[i]) => ci[run[i].sha] = "passed"

----------------------------------------------------------------------------
(* C19 *)

\* The tag the run is to use, from its inputs.
Expected(r) == IF r.image_tag = "" THEN r.sha ELSE r.image_tag

Started(r) == r.pc # "idle"

----------------------------------------------------------------------------
(* C20 *)

Deployed(i) == run[i].pc = "done"

AllEnded == \A i \in Runs : run[i].pc \in {"idle", "done", "failed"}

\* The deployment that completed last.
MostRecent == CHOOSE i \in Runs : Deployed(i) /\ \A j \in Runs : Deployed(j) => run[j].seq <= run[i].seq

\* C20: once the CD runs have ended, the three tags the most recent deployment
\* pushed (its own tag, <environment>-latest and latest) all refer to the
\* image it built, whether the runs interleaved or one of them failed between
\* two pushes.
C20_TagsAgreeAfterRuns ==
    (AllEnded /\ \E i \in Runs : Deployed(i)) =>
        \A k \in 1..3 : ecr[PushOrder(run[MostRecent])[k]] = run[MostRecent].image

----------------------------------------------------------------------------
(* The test client, src/client/client.js *)

\* No server accepts the connection.
Refused == [kind |-> "refused"]
\* The request is on its way.
Pending == [kind |-> "pending"]

\* What a request gets from the server process: its response while it
\* listens, a refused connection otherwise.
Answer(r, mem, fault) ==
    IF proc # "listening"
    THEN Refused
    ELSE LET o == jsonParser(r)
         IN  handle(r, IF o.kind = "read" THEN read(r) ELSE o, mem, fault)

\* The body axios.post sends: the object as JSON, Content-Type application/json.
ClientDoc == JObj([test |-> JStr("Hello from client"), timestamp |-> JStr(ToISOString(wall))])

\* The four requests of testServer, in the order of its statements.
Checks ==
    << Request("GET", "/health", NoBody),
       Request("GET", "/", NoBody),
       Request("GET", "/api/info", NoBody),
       Request("POST", "/api/echo", Body("json", WellFormed(ClientDoc), FALSE)) >>

\* A client whose validateStatus accepts every status.
axiosAnyStatus(answer) == answer.kind = "sent"

\* axios settles the promise: fulfilled on a response with a 2xx status,
\* rejected on any other status and when no response arrives.
axios(answer) == answer.kind = "sent" /\ answer.res.status \in 200..299

\* testServer() is called: the banner, and the first statement of the try block.
testServer ==
    /\ client.pc = "idle"
    /\ client' = [client EXCEPT !.pc = "ready", !.out = <<"=== Testing Node.js DevOps Server ===">>]
    /\ UNCHANGED <<server, host, pipeline, health, setup>>

\* The next check is announced and its request issued; the function awaits.
ClientSend ==
    /\ client.pc = "ready"
    /\ client' = [client EXCEPT !.pc = "awaiting",
                                !.out = Append(client.out, "Testing endpoint..."),
                                !.sent = Append(client.sent,
                                                [req |-> Checks[client.k], answer |-> Pending])]
    /\ UNCHANGED <<server, host, pipeline, health, setup>>

\* The awaited promise settles.  Fulfilled: the check is logged and the
\* function goes on to the next, or past the last to "All tests passed" and
\* the end of the process.  Rejected: the catch block logs the error and
\* calls process.exit(1).
ClientSettle(mem, fault) ==
    /\ client.pc = "awaiting"
    /\ LET answer == Answer(Checks[client.k], mem, fault)
           sent == [client.sent EXCEPT ![client.k].answer = answer]
       IN  IF axios(answer)
           THEN IF client.k < Len(Checks)
                THEN client' = [client EXCEPT !.pc = "ready", !.k = client.k + 1,
                                              !.sent = sent,
                                              !.out = Append(client.out, "passed")]
                ELSE client' = [client EXCEPT !.pc = "exited", !.exit = 0,
                                              !.sent = sent,
                                              !.out = client.out \o
                                                      <<"passed", "=== All tests passed! ===">>]
           ELSE client' = [client EXCEPT !.pc = "exited", !.exit = 1,
                                         !.sent = sent,
                                         !.out = Append(client.out, "Error")]
    /\ UNCHANGED <<server, host, pipeline, health, setup>>

\* The client run against the server process, whose handlers may throw.
NextClient ==
    \/ Listening
    \/ ListenError
    \/ Tick
    \/ testServer
    \/ ClientSend
    \/ \E mem \in Mems, fault \in BOOLEAN : ClientSettle(mem, fault)

SpecClient == Init /\ [][NextClient]_vars

----------------------------------------------------------------------------
(* C21 *)

\* The method and path of the four checks, in the order the claim gives them.
CheckOrder == << <<"GET", "/health">>, <<"GET", "/">>, <<"GET", "/api/info">>,
                 <<"POST", "/api/echo">> >>

\* The request received a response with a 2xx status.
Succeeded(x) == x.answer.kind = "sent" /\ x.answer.res.status \in 200..299
\* The request has been settled without such a response.
FailedRequest(x) == x.answer.kind # "pending" /\ ~Succeeded(x)

AllPassedLogged == \E i \in DOMAIN client.out : client.out[i] = "=== All tests passed! ==="

\* C21: the client issues its checks in the order /health, /, /api/info,
\* /api/echo, each only after the one before succeeded; a failed request is
\* the last one issued and the client has then exited with status 1; "All
\* tests passed" is logged only when all four requests succeeded.
C21_ChecksInOrderStopAtFirstFailure ==
    /\ Len(client.sent) <= 4
    /\ \A i \in DOMAIN client.sent :
          /\ <<client.sent[i].req.method, client.sent[i].req.path>> = CheckOrder[i]
          /\ i > 1 => Succeeded(client.sent[i - 1])
          /\ FailedRequest(client.sent[i]) =>
                i = Len(client.sent) /\ client.pc = "exited" /\ client.exit = 1
    /\ AllPassedLogged =>
          Len(client.sent) = 4 /\ \A i \in 1..4 : Succeeded(client.sent[i])

\* All four checks passed and the client said so.
C21_WitnessPassed == AllPassedLogged /\ client.exit = 0

\* The third check failed on a response and the client exited with 1.
C21_Witness ==
    /\ Len(client.sent) = 3
    /\ client.sent[3].answer.kind = "sent"
    /\ FailedRequest(client.sent[3])
    /\ client.exit = 1

----------------------------------------------------------------------------
(* The container's HEALTHCHECK, Dockerfile *)

\* HEALTHCHECK --retries=3
Retries == 3

\* The port in the URL the probe requests, http://localhost:3000/health.
ProbePort == 3000

\* The connection is accepted and no response comes.
Silent == [kind |-> "silent"]

\* What the probe's request gets: the response of the server process when it
\* listens on the port of the URL (none at all when the process is stalled),
\* a refused connection when nothing listens there.
ProbeAnswer(mem, fault, stalled) ==
    IF proc = "listening" /\ bound = ProbePort
    THEN IF stalled THEN Silent ELSE Answer(Request("GET", "/health", NoBody), mem, fault)
    ELSE Refused

\* A probe that takes any response for health.
ProbeExitAnyResponse(answer) ==
    CASE answer.kind = "sent" -> 0
      [] answer.kind = "refused" -> 1
      [] OTHER -> -1

\* node -e "require('http').get(url, (r) => {process.exit(r.statusCode === 200 ? 0 : 1)})":
\* the callback runs on a response; a refused connection is an 'error' event
\* without a listener, which ends the process with status 1; without a
\* response the process does not end by itself, and the runtime kills it
\* when --timeout is over (-1).
ProbeExit(answer) ==
    CASE answer.kind = "sent" -> IF answer.res.status = 200 THEN 0 ELSE 1
      [] answer.kind = "refused" -> 1
      [] OTHER -> -1

\* Whether the server process answers GET /health with 200 on the port it
\* listens on.
Serving(mem, fault, stalled) ==
    /\ proc = "listening"
    /\ ~stalled
    /\ Answer(Request("GET", "/health", NoBody), mem, fault).res.status = 200

\* What is kept of an answer: its kind and, of a response, its status.
Outcome(answer) ==
    IF answer.kind = "sent" THEN [kind |-> "sent", status |-> answer.res.status]
    ELSE [kind |-> answer.kind]

\* The runtime runs the probe while the container runs.  A probe that exits 0
\* makes the container healthy and clears the failing streak; any other
\* result adds to the streak, unless the container is still starting and
\* within --start-period (inStart), and a streak of --retries makes the
\* container unhealthy.
HealthCheck(inStart, mem, fault, stalled) ==
    /\ proc # "exited"
    /\ Len(health.probes) < MaxProbes
    /\ inStart => health.status = "starting" /\ health.probes = << >>
    /\ LET answer == ProbeAnswer(mem, fault, stalled)
           exit == ProbeExit(answer)
           probe == [answer |-> Outcome(answer), exit |-> exit,
                     serving |-> Serving(mem, fault, stalled), port |-> bound]
           streak == IF exit = 0 THEN 0
                     ELSE IF inStart THEN health.streak ELSE health.streak + 1
       IN  health' = [status |-> IF exit = 0 THEN "healthy"
                                 ELSE IF streak >= Retries THEN "unhealthy"
                                 ELSE health.status,
                      streak |-> streak,
                      probes |-> Append(health.probes, probe)]
    /\ UNCHANGED <<server, host, pipeline, client, setup>>

\* The container: the server process and the runtime's probes.
NextContainer ==
    \/ Listening
    \/ ListenError
    \/ \E inStart, fault, stalled \in BOOLEAN, mem \in Mems :
          HealthCheck(inStart, mem, fault, stalled)

SpecContainer == Init /\ [][NextContainer]_vars

----------------------------------------------------------------------------
(* C22 *)

\* The probe's request received a response with status 200.
Got200(p) == p.answer.kind = "sent" /\ p.answer.status = 200

\* The last n probes all failed.
LastFailed(n) ==
    /\ Len(health.probes) >= n
    /\ \A i \in (Len(health.probes) - n + 1)..Len(health.probes) : health.probes[i].exit # 0

\* C22: a probe exits 0 exactly when its request received status 200; with
\* another status or a refused connection it exits non-zero, without an
\* answer it is timed out; and the container is unhealthy only when the last
\* three probes failed one after the other.
C22_ProbeAndRetries ==
    /\ \A i \in DOMAIN health.probes :
          LET p == health.probes[i]
          IN  /\ p.exit = 0 <=> Got200(p)
              /\ p.answer.kind = "silent" <=> p.exit = -1
    /\ health.status = "unhealthy" => LastFailed(Retries)

\* The container has become unhealthy after a non-200 response, a refused
\* connection and a probe that was timed out.
C22_Witness ==
    /\ health.status = "unhealthy"
    /\ \E i, j, k \in DOMAIN health.probes :
          /\ health.probes[i].answer.kind = "sent" /\ ~Got200(health.probes[i])
          /\ health.probes[j].answer.kind = "refused"
          /\ health.probes[k].answer.kind = "silent"

----------------------------------------------------------------------------
(* C23 *)

\* C23: whatever PORT the container is started with, a probe made while the
\* server listens and answers GET /health with 200 on its port succeeds, and
\* the container is not unhealthy while every probe found the server so.
C23_HealthyServerProbedHealthy ==
    /\ \A i \in DOMAIN health.probes :
          health.probes[i].serving => health.probes[i].exit = 0
    /\ (\A i \in DOMAIN health.probes : health.probes[i].serving) =>
          health.status # "unhealthy"

\* A server on the port of the probe: it is probed healthy.
C23_Witness ==
    \E i \in DOMAIN health.probes :
       /\ health.probes[i].serving
       /\ health.probes[i].port = ProbePort
       /\ health.probes[i].exit = 0

----------------------------------------------------------------------------
(* C24 *)

DeclaredJson(r) == HasText(r) /\ r.body.ctype \in {"json", "json-latin1"}
Unparsable(r) == HasText(r) /\ r.body.text.kind = "garbage"

\* The value a body parses to: the value of a well-formed text, {} when
\* there is nothing to parse.
ParsedBody(r) ==
    IF ValidJson(r) /\ DeclaredJson(r)
    THEN JSONStringify(JSONParse(r.body.text.doc))
    ELSE EmptyObject

Received(e, v) ==
    /\ e.res.status = 200
    /\ e.res.body.message = "Echo endpoint"
    /\ "received" \in DOMAIN e.res.body
    /\ e.res.body.received = v

\* C24 as stated: POST /api/echo answers with a 400-class status only when the
\* body is declared as JSON and fails to parse; every other request is
\* answered 200 with the parsed body in the received field.
C24_RefusedOnlyWhenUnparsable ==
    \A e \in Entries :
        IsEcho(e.req) =>
            /\ ClientError(e.res) => DeclaredJson(e.req) /\ Unparsable(e.req)
            /\ ~(DeclaredJson(e.req) /\ Unparsable(e.req)) => Received(e, ParsedBody(e.req))

\* C24, amended: POST /api/echo answers with a 400-class status only when the
\* JSON middleware refuses a body declared as JSON: 415 for a charset outside
\* utf-*, 413 for a body over the size limit, 400 for a text that is not
\* empty and is not a JSON object or array.  Every other request is answered
\* 200: with the parsed object or array in received, with {} for an empty
\* body, and for a body of another content type with {} (express 4) or
\* without a received field (express 5).
C24_RefusedOnlyByMiddleware ==
    \A e \in Entries :
        IsEcho(e.req) =>
            LET r == e.req
            IN  CASE ~DeclaredJson(r) ->
                       /\ e.res.status = 200
                       /\ e.res.body.message = "Echo endpoint"
                       /\ IF express = 4
                          THEN Received(e, EmptyObject)
                          ELSE "received" \notin DOMAIN e.res.body
                  [] r.body.ctype = "json-latin1" -> e.res.status = 415
                  [] r.body.big -> e.res.status = 413
                  [] r.body.text.kind = "empty" -> Received(e, EmptyObject)
                  [] Unparsable(r) -> e.res.status = 400
                  [] r.body.text.doc.t \notin {"obj", "arr"} -> e.res.status = 400
                  [] OTHER -> Received(e, ParsedBody(r))

\* An object has been echoed, a body of another content type answered 200,
\* and a JSON number refused.
C24_Witness ==
    /\ \E e \in Entries :
          /\ e.req = Request("POST", "/api/echo", Body("text", Garbage("n"), FALSE))
          /\ e.res.status = 200
    /\ \E e \in Entries :
          /\ e.req = Request("POST", "/api/echo", Body("json", WellFormed(DocNumber), FALSE))
          /\ e.res.status = 400

----------------------------------------------------------------------------
(* Requests outside the four documented method/path pairs *)

\* Requests with other methods and other spellings of the paths, next to the
\* four documented ones.
RouteRequests ==
    { Request(m, p, NoBody) :
        m \in {"GET", "POST", "HEAD", "OPTIONS", "DELETE"},
        p \in {"/health", "/api/echo", "/nope"} }
    \cup { Request("GET", p, NoBody) : p \in {"/", "/api/info", "/health/", "/HEALTH"} }
    \cup { Request("POST", "/health", Body("json", WellFormed(DocObject), FALSE)),
           Request("POST", "/api/echo", Body("json", WellFormed(DocObject), FALSE)) }

\* The server process, sent these requests.
NextRoutes ==
    \/ Listening
    \/ ListenError
    \/ \E r \in RouteRequests : Accept(r, FALSE)
    \/ \E x \in inflight : BodyEnd(x, FALSE)
    \/ Tick

SpecRoutes == Init /\ [][NextRoutes]_vars

----------------------------------------------------------------------------
(* C25 *)

\* One of the four documented method/path pairs.
Documented(r) ==
    \/ r.method = "GET" /\ r.path \in {"/health", "/", "/api/info"}
    \/ r.method = "POST" /\ r.path = "/api/echo"

\* The response carries the envelope of one of the four handlers.
FromHandler(res) ==
    \E k \in {"status", "message", "service"} : k \in DOMAIN res.body

\* C25 as stated: a request outside the four documented method/path pairs is
\* never answered by one of the four handlers and never receives 200.
C25_OnlyDocumentedPairsServed ==
    \A e \in Entries :
        ~Documented(e.req) => e.res.status # 200 /\ ~FromHandler(e.res)

\* The request's path is that of a documented route, letter case and a
\* trailing slash apart.
SamePath(path, route) ==
    path \in {route, route \o "/"} \/ (route = "/health" /\ path = "/HEALTH")

\* A documented pair, or HEAD in place of GET, on such a path.
Served(r) ==
    \/ r.method \in {"GET", "HEAD"} /\ \E q \in {"/health", "/", "/api/info"} : SamePath(r.path, q)
    \/ r.method = "POST" /\ SamePath(r.path, "/api/echo")

OptionsOnRoute(r) ==
    r.method = "OPTIONS" /\ \E q \in {"/health", "/", "/api/info", "/api/echo"} : SamePath(r.path, q)

\* C25, amended: only the four routes are registered, matched without regard
\* to letter case or a trailing slash, the GET routes serving HEAD as well
\* (200 without a body); OPTIONS on the path of a route is answered 200 by
\* the router with the Allow header and without a handler; every other
\* request is answered by no handler and never with 200.
C25_OnlyRegisteredRoutesServed ==
    \A e \in Entries :
        /\ ~Served(e.req) /\ ~OptionsOnRoute(e.req) =>
              e.res.status # 200 /\ ~FromHandler(e.res)
        /\ OptionsOnRoute(e.req) => e.res = Response(200, [allow |-> Allow(e.req.path)])
        /\ ~Served(e.req) => ~FromHandler(e.res)
        /\ e.req.method = "HEAD" /\ Served(e.req) => e.res = Response(200, << >>)

\* POST /health has been answered 404 and HEAD /health 200.
C25_Witness ==
    /\ \E e \in Entries :
          e.req = Request("POST", "/health", NoBody) /\ e.res.status = 404
    /\ \E e \in Entries :
          e.req = Request("HEAD", "/health", NoBody) /\ e.res.status = 200

----------------------------------------------------------------------------
(* scripts/setup-aws.sh *)

\* The commands of the script in the order of its lines.
SetupOrder == <<"sts", "ecr", "logs", "cluster", "sed", "register", "rm", "complete">>

\* The four commands that create resources, each followed by || echo.
ResourceSteps == {"ecr", "logs", "cluster", "register"}

\* What the || echo of each of them prints.
Fallback ==
    [ecr |-> "Repository already exists", logs |-> "Log group already exists",
     cluster |-> "Cluster already exists", register |-> "Task definition registration failed"]

\* The command after the k-th.
After(c) == SetupOrder[(CHOOSE k \in DOMAIN SetupOrder : SetupOrder[k] = c) + 1]

\* ./scripts/setup-aws.sh is started, for the first time or again: set -e and
\* the first echo.  The resources and the files of earlier runs are still there.
SetupStart ==
    /\ setup.pc \in {"idle", "done", "exited"}
    /\ setup.runs < MaxSetupRuns
    /\ setup' = [setup EXCEPT !.pc = "sts", !.runs = setup.runs + 1, !.ran = << >>,
                              !.out = <<"Setting up AWS resources">>, !.exit = -1,
                              !.account = ""]
    /\ UNCHANGED <<server, host, pipeline, client, health>>

\* AWS_ACCOUNT_ID=$(aws sts get-caller-identity ...): under set -e a failure
\* ends the script with the command's status.
GetAccountId(ok) ==
    /\ setup.pc = "sts"
    /\ setup' = IF ok
                THEN [setup EXCEPT !.pc = After("sts"), !.ran = Append(setup.ran, "sts"),
                                   !.account = "123456789012"]
                ELSE [setup EXCEPT !.pc = "exited", !.ran = Append(setup.ran, "sts"),
                                   !.exit = 255]
    /\ UNCHANGED <<server, host, pipeline, client, health>>

\* Whether the command can succeed: create-repository and create-log-group
\* fail on a resource that exists; create-cluster returns the existing
\* cluster and register-task-definition adds a revision.
MaySucceed(c) == c \in {"ecr", "logs"} => c \notin setup.cloud

\* The same command without || echo: under set -e its failure ends the script.
ResourceStepUnguarded(c, ok) ==
    /\ setup.pc = c
    /\ c \in ResourceSteps
    /\ ok => MaySucceed(c)
    /\ setup' = IF ok
                THEN [setup EXCEPT !.pc = After(c), !.ran = Append(setup.ran, c),
                                   !.cloud = setup.cloud \cup {c}]
                ELSE [setup EXCEPT !.pc = "exited", !.ran = Append(setup.ran, c),
                                   !.exit = 255]
    /\ UNCHANGED <<server, host, pipeline, client, health>>

\* aws ... create/register ... || echo "...": the command creates its
\* resource, or fails and the echo makes the list succeed.
ResourceStep(c, ok) ==
    /\ setup.pc = c
    /\ c \in ResourceSteps
    /\ ok => MaySucceed(c)
    /\ setup' = IF ok
                THEN [setup EXCEPT !.pc = After(c), !.ran = Append(setup.ran, c),
                                   !.cloud = setup.cloud \cup {c}]
                ELSE [setup EXCEPT !.pc = After(c), !.ran = Append(setup.ran, c),
                                   !.out = Append(setup.out, Fallback[c])]
    /\ UNCHANGED <<server, host, pipeline, client, health>>

\* sed "s/YOUR_ACCOUNT_ID/$AWS_ACCOUNT_ID/g" ecs/task-definition.json >
\* ecs/task-definition-temp.json, with no || after it.  The shell opens the
\* target first: when it cannot (no ecs directory below the working
\* directory) nothing is written; when sed cannot read its input the target
\* is there, empty (opened).  Either failure ends the script under set -e.
Sed(ok, opened) ==
    /\ setup.pc = "sed"
    /\ ok => opened
    /\ setup' = IF ok
                THEN [setup EXCEPT !.pc = After("sed"), !.ran = Append(setup.ran, "sed"),
                                   !.temp = TRUE]
                ELSE [setup EXCEPT !.pc = "exited", !.ran = Append(setup.ran, "sed"),
                                   !.temp = setup.temp \/ opened,
                                   !.exit = IF opened THEN 2 ELSE 1]
    /\ UNCHANGED <<server, host, pipeline, client, health>>

\* rm -f ecs/task-definition-temp.json
Remove ==
    /\ setup.pc = "rm"
    /\ setup' = [setup EXCEPT !.pc = After("rm"), !.ran = Append(setup.ran, "rm"),
                              !.temp = FALSE]
    /\ UNCHANGED <<server, host, pipeline, client, health>>

\* echo "Setup complete!", the next steps, and the end of the script.
SetupComplete ==
    /\ setup.pc = "complete"
    /\ setup' = [setup EXCEPT !.pc = "done", !.ran = Append(setup.ran, "complete"),
                              !.out = Append(setup.out, "Setup complete!"),
                              !.exit = 0]
    /\ UNCHANGED <<server, host, pipeline, client, health>>

NextSetup ==
    \/ SetupStart
    \/ \E ok \in BOOLEAN : GetAccountId(ok)
    \/ \E c \in ResourceSteps, ok \in BOOLEAN : ResourceStep(c, ok)
    \/ \E ok, opened \in BOOLEAN : Sed(ok, opened)
    \/ Remove
    \/ SetupComplete

SpecSetup == Init /\ [][NextSetup]_vars

----------------------------------------------------------------------------
(* C26 *)

SetupEnded == setup.pc \in {"done", "exited"}
AccountObtained == setup.account # ""
CompletePrinted == \E i \in DOMAIN setup.out : setup.out[i] = "Setup complete!"
SedFailed == setup.pc = "exited" /\ setup.ran # << >> /\ setup.ran[Len(setup.ran)] = "sed"

\* Some resource command of the run has failed.
ResourceFailed == \E i \in DOMAIN setup.out : \E c \in ResourceSteps : setup.out[i] = Fallback[c]

\* The run went through every command in order, removed the temporary file
\* and printed "Setup complete!".
RanToCompletion ==
    /\ setup.pc = "done"
    /\ setup.ran = SetupOrder
    /\ ~setup.temp
    /\ CompletePrinted
    /\ setup.exit = 0

====
